---------------------------- MODULE Spec2Model ----------------------------
(***************************************************************************)
(* Model of the Synthetic Persona Platform server (server.js, kept in      *)
(* src/unnamed/part_001 lines 312-786): the history normalizer, the        *)
(* dossier truncation, the Basic-Auth gate, the /api/chat pipeline and the *)
(* other routes of the request handler.                                    *)
(*                                                                         *)
(* Representation of JavaScript values                                     *)
(*  - a text is [id, len]: the first len characters of the text named id;  *)
(*    slice(0, k) keeps the id and takes the minimum of len and k;         *)
(*  - a dossier, and a Basic credential, is a sequence of characters;      *)
(*  - a JSON value of a request body is a record with a tag t telling its  *)
(*    JavaScript type, so that String(), ||, && and property access are    *)
(*    computed as JavaScript computes them;                                *)
(*  - a call either returns or throws: [state, value].                     *)
(***************************************************************************)
EXTENDS Integers, Sequences, FiniteSets, TLC

(***************************************************************************)
(* Bounds of the model.                                                    *)
(***************************************************************************)
\* longest client-supplied history array
MaxHistoryLen == 3
\* largest configured MAX_HISTORY_MESSAGES (0..MaxN)
MaxN == 2
\* longest dossier (0..MaxDossierLen characters)
MaxDossierLen == 12
\* largest configured MAX_DOSSIER_CHARS (0..MaxBudget)
MaxBudget == 11
\* longest history array of a /api/chat body
MaxChatHistory == 2
\* longest conversation a client starts a submission with
MaxClientHistory == 3
\* longest output array of an upstream response body
MaxOutputItems == 2
\* longest content array of an output item
MaxContentItems == 2
\* token frames in a streamed reply
MaxTokenFrames == 2
\* symbols of the response body in one network chunk
MaxChunk == 6

(***************************************************************************)
(* Program constants.                                                      *)
(***************************************************************************)
\* .slice(0, 4000) in normalizeHistory
CONTENT_CAP == 4000
\* length of "\n\n[... dossier truncated for context length ...]\n\n"
MARKER_LEN == 50

VARIABLES
    \* configuration, read once from process.env at startup (part_001:322-327)
    AUTH_ENABLED,
    APP_USERNAME,
    APP_PASSWORD,
    MAX_HISTORY_MESSAGES,
    MAX_DOSSIER_CHARS,
    env,                    \* the API key variables of process.env that are set
    \* a function called on its own
    arg,                    \* argument of the function under test
    ret,                    \* its outcome: [state, value]
    \* the server process and the request it is handling
    alive,                  \* the node process is running
    pc,                     \* position of the request handler
    req,                    \* the incoming request: method, path, Authorization
    body,                   \* the value readJsonBody resolved to
    personaId,              \* locals of the /api/chat branch
    message,
    mode,
    history,
    input,                  \* the input list requestPersonaReply has built
    fetchCalls,             \* calls of fetch() made for this request, in order
    res,                    \* responses written for this request, in order
    bodyReads,              \* times the request body was read
    fileReads,              \* times fs.readFile was called for this request
    \* a browser client and the submission it is making
    client,                 \* which of the repository's clients runs in the page
    conversationHistory,    \* conversationHistory (state.history in app.js)
    isLoading,              \* isLoading (state.sending in app.js)
    cpc,                    \* position of the submit handler
    timeoutId,              \* the abort timer of the submission
    response,               \* status of the response fetch resolved with, 0: none
    shown,                  \* the message the handler showed last
    before,                 \* conversationHistory when the submission started
    \* the event stream of a streamed reply (src/start.sh:134-186)
    frames,                 \* the frames the server writes to the response
    wire,                   \* what of the response body has not arrived yet
    buffer,                 \* buffer: the incomplete last line
    fullReply,              \* fullReply
    hadError,               \* hadError
    \* the session of the single-page client (part_001:801-806)
    currentPersona,         \* id of state.currentPersona, NoPersona for null
    sentTo                  \* payload.personaId of the request in flight

config == <<AUTH_ENABLED, APP_USERNAME, APP_PASSWORD, MAX_HISTORY_MESSAGES,
            MAX_DOSSIER_CHARS, env>>
harness == <<arg, ret>>
locals == <<body, personaId, message, mode, history, input>>
effects == <<fetchCalls, res, bodyReads, fileReads>>
server == <<alive, pc, req, locals, effects>>
stream == <<frames, wire, buffer, fullReply, hadError>>
session == <<currentPersona, sentTo>>
browser == <<client, conversationHistory, isLoading, cpc, timeoutId, response, shown, before,
             stream, session>>
vars == <<config, harness, server, browser>>

(***************************************************************************)
(* JavaScript helpers.                                                     *)
(***************************************************************************)
Min(a, b) == IF a < b THEN a ELSE b
Max(a, b) == IF a > b THEN a ELSE b

\* Array.prototype.slice(start, end) and String.prototype.slice(start, end):
\* a negative index counts from the end, both are clamped to 0..length.
RelIndex(i, n) == IF i < 0 THEN Max(n + i, 0) ELSE Min(i, n)
Slice(s, start, end) ==
    LET from == RelIndex(start, Len(s))
        to   == RelIndex(end, Len(s))
    IN  IF to <= from THEN <<>> ELSE SubSeq(s, from + 1, to)
\* slice(start) with one argument: to the end.  Note slice(-0) is slice(0).
SliceFrom(s, start) == Slice(s, start, Len(s))

\* Math.floor(n * 0.8) and Math.floor(n * 0.2) for a natural n
FloorTimes08(n) == (n * 8) \div 10
FloorTimes02(n) == (n * 2) \div 10

NoCall   == [state |-> "none", value |-> <<>>]
Return(v) == [state |-> "returned", value |-> v]
Throw(e)  == [state |-> "threw", value |-> e]

(***************************************************************************)
(* Texts and JSON values.                                                  *)
(***************************************************************************)
Text(id, len) == [id |-> id, len |-> len]
EmptyText == Text("", 0)
\* text.slice(0, k)
TextSlice0(x, k) == IF Min(x.len, k) = 0 THEN EmptyText ELSE Text(x.id, Min(x.len, k))

\* JSON values that occur as the content of a history entry
JString(id, len) == [t |-> "string", id |-> id, len |-> len]
JUndefined == [t |-> "undefined", id |-> "", len |-> 0]
\* a non-zero number, e.g. 7
JNumber == [t |-> "number", id |-> "7", len |-> 1]
\* an object whose own toString property is no function, e.g. {"toString": 1}:
\* String() of it finds no primitive and throws a TypeError
JHostile == [t |-> "hostile", id |-> "", len |-> 0]

\* truthiness, as || and && use it
Truthy(v) ==
    CASE v.t = "undefined" -> FALSE
      [] v.t = "string"    -> v.len > 0
      [] OTHER             -> TRUE

Throws(v) == v.t = "hostile"
\* String(v), for a v on which it does not throw
ToText(v) ==
    CASE v.t = "string"    -> Text(v.id, v.len)
      [] v.t = "undefined" -> Text("undefined", 9)
      [] v.t = "number"    -> Text(v.id, v.len)
      [] OTHER             -> Text("[object Object]", 15)

\* entries of a history array: null, a primitive, or an object
NullEntry == [kind |-> "null", role |-> "undefined", content |-> JUndefined]
PrimEntry == [kind |-> "primitive", role |-> "undefined", content |-> JUndefined]
ObjEntry(role, content) == [kind |-> "object", role |-> role, content |-> content]

\* the history value of a body: an array of entries, or something else
JArray(items) == [t |-> "array", items |-> items]
\* a truthy value that is no array, e.g. the string "x"
NotArray == [t |-> "string", items |-> <<>>]
\* the property is absent
NoHistory == [t |-> "undefined", items |-> <<>>]

(***************************************************************************)
(* normalizeHistory (part_001:540-553)                                     *)
(***************************************************************************)
\* first filter: message && (message.role === 'user' || message.role === 'assistant')
RoleFilter(m) == m.kind # "null" /\ m.role \in {"user", "assistant"}

\* the map step: String(message.content || '').slice(0, 4000)
ContentOf(m) ==
    IF Truthy(m.content) THEN TextSlice0(ToText(m.content), CONTENT_CAP) ELSE EmptyText

\* normalizeHistory without its second filter (empty contents are kept)
normalizeHistory_keepEmpty(h) ==
    IF h.t # "array" THEN Return(<<>>)
    ELSE LET kept == SelectSeq(h.items, RoleFilter)
         IN  IF \E i \in 1..Len(kept) : Truthy(kept[i].content) /\ Throws(kept[i].content)
             THEN Throw("TypeError")
             ELSE LET mapped == [i \in 1..Len(kept) |->
                                   [role |-> kept[i].role, content |-> ContentOf(kept[i])]]
                  IN  Return(SliceFrom(mapped, -MAX_HISTORY_MESSAGES))

normalizeHistory(h) ==
    IF h.t # "array" THEN Return(<<>>)
    ELSE LET kept == SelectSeq(h.items, RoleFilter)
         IN  IF \E i \in 1..Len(kept) : Truthy(kept[i].content) /\ Throws(kept[i].content)
             THEN Throw("TypeError")
             ELSE LET mapped == [i \in 1..Len(kept) |->
                                   [role |-> kept[i].role, content |-> ContentOf(kept[i])]]
                      nonEmpty == SelectSeq(mapped, LAMBDA m : m.content.len > 0)
                  IN  Return(SliceFrom(nonEmpty, -MAX_HISTORY_MESSAGES))

(***************************************************************************)
(* truncateText (part_001:421-429)                                         *)
(***************************************************************************)
\* characters of the elision marker are 0, dossier characters are 1, 2, ...
ELISION_MARKER == [i \in 1..MARKER_LEN |-> 0]

truncateText(value, maxChars) ==
    IF Len(value) <= maxChars THEN value
    ELSE LET head == Slice(value, 0, FloorTimes08(maxChars))
             tail == SliceFrom(value, -FloorTimes02(maxChars))
         IN  head \o ELISION_MARKER \o tail

(***************************************************************************)
(* extractOutputText (part_001:555-580).  A reply text is a sequence of    *)
(* characters; a field of the response body is absent, a number or a       *)
(* string; an output item or a content item is null or an object.          *)
(***************************************************************************)
Absent == [t |-> "absent", s |-> <<>>]
NumberField == [t |-> "number", s |-> <<>>]
Str(s) == [t |-> "string", s |-> s]

Whitespace == {" ", "\n"}

\* String.prototype.trim on a sequence of characters
RECURSIVE TrimLeft(_)
TrimLeft(s) == IF s # <<>> /\ Head(s) \in Whitespace THEN TrimLeft(Tail(s)) ELSE s
RECURSIVE TrimRight(_)
TrimRight(s) ==
    IF s # <<>> /\ s[Len(s)] \in Whitespace THEN TrimRight(SubSeq(s, 1, Len(s) - 1)) ELSE s
TrimSeq(s) == TrimRight(TrimLeft(s))

\* typeof v === 'string' && v.trim()
NonBlankString(v) == v.t = "string" /\ TrimSeq(v.s) # <<>>

\* chunks.join('\n')
RECURSIVE JoinLines(_)
JoinLines(chunks) ==
    IF chunks = <<>> THEN <<>>
    ELSE IF Len(chunks) = 1 THEN chunks[1]
    ELSE chunks[1] \o <<"\n">> \o JoinLines(Tail(chunks))

NullItem == [kind |-> "null", isArray |-> FALSE, content |-> <<>>]
\* an output item whose content is no array (absent, a string, an object)
FlatItem == [kind |-> "object", isArray |-> FALSE, content |-> <<>>]
OutputItem(content) == [kind |-> "object", isArray |-> TRUE, content |-> content]

NullContent == [kind |-> "null", text |-> Absent, output_text |-> Absent]
ContentItem(text, output_text) == [kind |-> "object", text |-> text, output_text |-> output_text]

NullResponse == [kind |-> "null", output_text |-> Absent, isArray |-> FALSE, output |-> <<>>]
\* a body without an output array
FlatResponse(output_text) ==
    [kind |-> "object", output_text |-> output_text, isArray |-> FALSE, output |-> <<>>]
NestedResponse(output_text, output) ==
    [kind |-> "object", output_text |-> output_text, isArray |-> TRUE, output |-> output]

\* lines 569-576: what one content item pushes
ChunksOfContent(c) ==
    (IF NonBlankString(c.text) THEN << TrimSeq(c.text.s) >> ELSE <<>>)
    \o (IF NonBlankString(c.output_text) THEN << TrimSeq(c.output_text.s) >> ELSE <<>>)

RECURSIVE ChunksOfContents(_)
ChunksOfContents(cs) ==
    IF cs = <<>> THEN <<>> ELSE ChunksOfContent(Head(cs)) \o ChunksOfContents(Tail(cs))

\* lines 565-577: the chunks of the items whose content is an array
RECURSIVE ChunksOfOutput(_)
ChunksOfOutput(items) ==
    IF items = <<>> THEN <<>>
    ELSE (IF Head(items).isArray THEN ChunksOfContents(Head(items).content) ELSE <<>>)
         \o ChunksOfOutput(Tail(items))

\* reading a property of null (item.content, contentItem.text) throws a TypeError
ReadsNull(items) ==
    \E i \in 1..Len(items) :
        \/ items[i].kind = "null"
        \/ items[i].isArray /\ \E j \in 1..Len(items[i].content) : items[i].content[j].kind = "null"

extractOutputText(responseBody) ==
    IF responseBody.kind = "null" THEN Throw("TypeError")
    ELSE IF NonBlankString(responseBody.output_text)
    THEN Return(TrimSeq(responseBody.output_text.s))
    ELSE IF ~responseBody.isArray THEN Return(<<>>)
    ELSE IF ReadsNull(responseBody.output) THEN Throw("TypeError")
    ELSE Return(TrimSeq(JoinLines(ChunksOfOutput(responseBody.output))))

(***************************************************************************)
(* Inputs of the functions under test.                                     *)
(***************************************************************************)
ContentValues ==
    { JString("a", 1), JString("b", CONTENT_CAP + 1), JUndefined, JNumber, JHostile }

HistoryEntries ==
    { NullEntry, PrimEntry, ObjEntry("system", JString("a", 1)), ObjEntry("system", JHostile) }
    \cup { ObjEntry(r, c) : r \in {"user", "assistant"}, c \in ContentValues }

SeqsUpTo(S, n) == UNION { [1..k -> S] : k \in 0..n }

HistoryValues == { NotArray } \cup { JArray(items) : items \in SeqsUpTo(HistoryEntries, MaxHistoryLen) }

\* the dossier of n characters: 1, 2, ..., n
Dossier(n) == [i \in 1..n |-> i]

\* values of the text and output_text fields
TextFields == { Absent, Str(<<" ">>), Str(<<"a">>), Str(<<" ", "b", " ">>) }

ContentItems ==
    { NullContent, ContentItem(Str(<<"a">>), Str(<<"c">>)) }
    \cup { ContentItem(t, Absent) : t \in TextFields \ {Absent} }

OutputItems ==
    { NullItem, FlatItem }
    \cup { OutputItem(cs) : cs \in SeqsUpTo(ContentItems, MaxContentItems) }

ResponseBodies ==
    { NullResponse }
    \cup { FlatResponse(t) : t \in TextFields \cup {NumberField} }
    \cup { NestedResponse(t, items) :
             t \in TextFields \cup {NumberField},
             items \in SeqsUpTo(OutputItems, MaxOutputItems) }

(***************************************************************************)
(* Persona registry (part_001:403-419).  The records come from              *)
(* data/config/personas.json; two personas stand for the registry: one     *)
(* with a dossier shorter than any budget, one with the longest dossier.   *)
(***************************************************************************)
DEFAULT_MODEL == "gpt-4.1-mini"

personas ==
    << [ id |-> Text("pa01", 4), code |-> "PA01", name |-> "Stephen Jones",
         persona_type |-> "Buyer", tagline |-> "t1",
         api_key_env |-> "OPENAI_API_KEY_PA01",
         dossier |-> [i \in 1..2 |-> i], policy |-> "policy-PA01",
         display_name |-> "Stephen Jones (Buyer)" ],
       [ id |-> Text("pa02", 4), code |-> "PA02", name |-> "Ann Lee",
         persona_type |-> "Planner", tagline |-> "t2",
         api_key_env |-> "OPENAI_API_KEY_PA02",
         dossier |-> [i \in 1..MaxDossierLen |-> i], policy |-> "policy-PA02",
         display_name |-> "Ann Lee (Planner)" ] >>

\* personaById.has(id) and personaById.get(id)
personaById_has(id) == \E i \in 1..Len(personas) : personas[i].id = id
personaById_get(id) == personas[CHOOSE i \in 1..Len(personas) : personas[i].id = id]

(***************************************************************************)
(* MODE_DESCRIPTIONS (part_001:384-388) is an object literal: a property   *)
(* read finds its own keys and, for any other key, what Object.prototype   *)
(* holds under that name.  Of the inherited names only "constructor" and   *)
(* "__proto__" are lower-case, so only they survive toLowerCase().         *)
(***************************************************************************)
JFunction == [t |-> "function", id |-> "function Object() { [native code] }", len |-> 35]
JObject == [t |-> "object", id |-> "[object Object]", len |-> 15]

MODE_DESCRIPTIONS(key) ==
    CASE key = Text("interview", 9) -> JString("Interview Mode", 14)
      [] key = Text("scenario", 8)  -> JString("Scenario Mode", 13)
      [] key = Text("usability", 9) -> JString("Usability Mode", 14)
      [] key = Text("constructor", 11) -> JFunction
      [] key = Text("__proto__", 9) -> JObject
      [] OTHER -> JUndefined

(***************************************************************************)
(* String coercions of the /api/chat branch (part_001:745-747).            *)
(***************************************************************************)
\* String.prototype.trim on the texts of the model
Trim(x) ==
    CASE x = Text(" pa01 ", 6) -> Text("pa01", 4)
      [] x = Text("   ", 3)    -> EmptyText
      [] x = Text(" Hello ", 7) -> Text("Hello", 5)
      [] OTHER -> x

\* String.prototype.toLowerCase on the texts of the model
ToLowerCase(x) ==
    CASE x = Text("Scenario", 8)  -> Text("scenario", 8)
      [] x = Text("INTERVIEW", 9) -> Text("interview", 9)
      [] OTHER -> x

\* String(v || dflt): the outcome of the coercion, which throws on a value
\* that has no primitive form
StringOr(v, dflt) ==
    IF ~Truthy(v) THEN Return(dflt)
    ELSE IF Throws(v) THEN Throw([message |-> "Cannot convert object to primitive value",
                                  statusCode |-> 0])
    ELSE Return(ToText(v))

(***************************************************************************)
(* Basic authentication (part_001:431-491).  An Authorization header is    *)
(* [scheme, decoded]: decoded is the text its Base64 part decodes to.      *)
(***************************************************************************)
NoHeader == [scheme |-> "none", decoded |-> <<>>]
BasicHeader(decoded) == [scheme |-> "Basic", decoded |-> decoded]

\* String.prototype.indexOf for one character: 0-based, -1 when absent
IndexOf(s, c) ==
    IF \E i \in 1..Len(s) : s[i] = c
    THEN (CHOOSE i \in 1..Len(s) : s[i] = c /\ \A j \in 1..(i - 1) : s[j] # c) - 1
    ELSE -1

NullCreds == [isNull |-> TRUE, username |-> <<>>, password |-> <<>>]

parseAuthHeader(headerValue) ==
    IF headerValue.scheme # "Basic" THEN NullCreds
    ELSE LET decoded == headerValue.decoded
             separator == IndexOf(decoded, ":")
         IN  IF separator < 0 THEN NullCreds
             ELSE [ isNull |-> FALSE,
                    username |-> Slice(decoded, 0, separator),
                    password |-> SliceFrom(decoded, separator + 1) ]

safeEqual(a, b) ==
    IF Len(a) # Len(b) THEN FALSE
    ELSE \A i \in 1..Len(a) : a[i] = b[i]

\* isAuthenticated that forgets to compare the password
isAuthenticated_userOnly(r) ==
    IF ~AUTH_ENABLED THEN TRUE
    ELSE IF APP_USERNAME = <<>> \/ APP_PASSWORD = <<>> THEN FALSE
    ELSE LET creds == parseAuthHeader(r.authorization)
         IN  IF creds.isNull THEN FALSE
             ELSE safeEqual(creds.username, APP_USERNAME)

\* isAuthenticated that lets the health check through without credentials
isAuthenticated_healthOpen(r) ==
    IF ~AUTH_ENABLED THEN TRUE
    ELSE IF r.method = "GET" /\ r.path = "/api/health" THEN TRUE
    ELSE IF APP_USERNAME = <<>> \/ APP_PASSWORD = <<>> THEN FALSE
    ELSE LET creds == parseAuthHeader(r.authorization)
         IN  IF creds.isNull THEN FALSE
             ELSE safeEqual(creds.username, APP_USERNAME)
                  /\ safeEqual(creds.password, APP_PASSWORD)

\* isAuthenticated without the test of the configured credentials (line 468)
isAuthenticated_noEmptyCheck(r) ==
    IF ~AUTH_ENABLED THEN TRUE
    ELSE LET creds == parseAuthHeader(r.authorization)
         IN  IF creds.isNull THEN FALSE
             ELSE safeEqual(creds.username, APP_USERNAME)
                  /\ safeEqual(creds.password, APP_PASSWORD)

isAuthenticated(r) ==
    IF ~AUTH_ENABLED THEN TRUE
    ELSE IF APP_USERNAME = <<>> \/ APP_PASSWORD = <<>> THEN FALSE
    ELSE LET creds == parseAuthHeader(r.authorization)
         IN  IF creds.isNull THEN FALSE
             ELSE safeEqual(creds.username, APP_USERNAME)
                  /\ safeEqual(creds.password, APP_PASSWORD)

(***************************************************************************)
(* Responses.  A response is [status, challenge, payload]; challenge tells *)
(* that the WWW-Authenticate header is set.                                *)
(***************************************************************************)
Payload(kind, error, reply) == [kind |-> kind, error |-> error, reply |-> reply]
ErrorPayload(msg) == Payload("error", msg, EmptyText)

\* sendJson(res, statusCode, payload) (part_001:493-499)
sendJson(statusCode, payload) ==
    [status |-> statusCode, challenge |-> FALSE, payload |-> payload]

\* a list entry that spreads the whole persona record
PublicPersona_spread(persona) == persona

\* lines 730-737: the object GET /api/personas builds of a persona
PublicPersona(persona) ==
    [ id |-> persona.id,
      code |-> persona.code,
      name |-> persona.name,
      persona_type |-> persona.persona_type,
      tagline |-> persona.tagline,
      project_env |-> persona.api_key_env ]

\* lines 727-738: the body of the personas response
PersonasPayload ==
    [ kind |-> "personas", error |-> "", reply |-> EmptyText,
      data |-> [i \in 1..Len(personas) |-> PublicPersona(personas[i])] ]

\* the 401 of requireAuth (part_001:485-489)
Challenge401 ==
    [status |-> 401, challenge |-> TRUE, payload |-> ErrorPayload("Authentication required.")]

\* the catch of the /api/chat branch (part_001:767-772)
CatchChat(error) ==
    sendJson(IF error.statusCode # 0 THEN error.statusCode ELSE 500,
             ErrorPayload(error.message))

(***************************************************************************)
(* The /api/chat branch up to the validation (part_001:745-761).           *)
(***************************************************************************)
NoBody == [kind |-> "none", personaId |-> JUndefined, message |-> JUndefined,
           mode |-> JUndefined, history |-> NoHistory]
ObjectBody(p, m, md, h) ==
    [kind |-> "object", personaId |-> p, message |-> m, mode |-> md, history |-> h]
\* JSON.parse gave null: reading a property of it throws
NullBody == [NoBody EXCEPT !.kind = "null"]
\* JSON.parse gave a number, a string or true: every property is undefined
PrimitiveBody == [NoBody EXCEPT !.kind = "primitive"]

\* body.history || []
HistoryOrEmpty(h) == IF h.t = "undefined" THEN JArray(<<>>) ELSE h

\* lines 745-748: the four locals, or the error one of the coercions throws
ChatLocals(b) ==
    IF b.kind = "null"
    THEN Throw([message |-> "Cannot read properties of null", statusCode |-> 0])
    ELSE LET p == StringOr(b.personaId, EmptyText)
             m == StringOr(b.message, EmptyText)
             md == StringOr(b.mode, Text("interview", 9))
             h == normalizeHistory(HistoryOrEmpty(b.history))
         IN  IF p.state = "threw" THEN p
             ELSE IF m.state = "threw" THEN m
             ELSE IF md.state = "threw" THEN md
             ELSE IF h.state = "threw"
                  THEN Throw([message |-> "Cannot convert object to primitive value",
                              statusCode |-> 0])
             ELSE Return([ personaId |-> Trim(p.value),
                           message |-> Trim(m.value),
                           mode |-> ToLowerCase(md.value),
                           history |-> h.value ])

\* line 758: MODE_DESCRIPTIONS[mode] is truthy
ModeAccepted(md) == Truthy(MODE_DESCRIPTIONS(md))

\* lines 750-761: the 400 the validation answers, or "pass"
Validation(l) ==
    IF ~personaById_has(l.personaId) THEN "Unknown personaId."
    ELSE IF l.message.len = 0 THEN "Message is required."
    ELSE IF ~ModeAccepted(l.mode) THEN "Invalid mode."
    ELSE "pass"

(***************************************************************************)
(* requestPersonaReply up to the call of fetch (part_001:582-624).         *)
(***************************************************************************)
FIRST_REPLY == "This is your first reply. Include the FYI sentence exactly once and explain Out of Character commands in plain language."
NOT_FIRST_REPLY == "This is not your first reply. Do not repeat the FYI sentence."

Section(kind, value) == [kind |-> kind, value |-> value]

\* line 589
isFirstReply(h) == ~\E i \in 1..Len(h) : h[i].role = "assistant"

\* lines 590-605: the sections that are joined with blank lines
systemText(persona, md, h) ==
    LET found == MODE_DESCRIPTIONS(md)
        modeName == IF Truthy(found) THEN found ELSE MODE_DESCRIPTIONS(Text("interview", 9))
    IN  << Section("base", "BASE_PROMPT"),
           Section("grounding", "Use ONLY the dossier and policy below."),
           Section("persona", persona.display_name),
           Section("mode", ToText(modeName)),
           Section("policy", persona.policy),
           Section("dossier", truncateText(persona.dossier, MAX_DOSSIER_CHARS)),
           Section("instruction", IF isFirstReply(h) THEN FIRST_REPLY ELSE NOT_FIRST_REPLY) >>

\* the input list with the new message pushed both as a turn and as the message
PromptInput_messageTwice(persona, md, msg, h) ==
    << [role |-> "system", content |-> systemText(persona, md, h)] >>
    \o [i \in 1..Len(h) |-> [role |-> h[i].role, content |-> h[i].content]]
    \o << [role |-> "user", content |-> msg], [role |-> "user", content |-> msg] >>

\* the input list with the new message put before the history
PromptInput_messageFirst(persona, md, msg, h) ==
    << [role |-> "system", content |-> systemText(persona, md, h)] >>
    \o << [role |-> "user", content |-> msg] >>
    \o [i \in 1..Len(h) |-> [role |-> h[i].role, content |-> h[i].content]]

\* lines 607-624
PromptInput(persona, md, msg, h) ==
    << [role |-> "system", content |-> systemText(persona, md, h)] >>
    \o [i \in 1..Len(h) |-> [role |-> h[i].role, content |-> h[i].content]]
    \o << [role |-> "user", content |-> msg] >>

\* requestPersonaReply that does not look at the key before it calls fetch
HasApiKey_always(persona) == TRUE

\* lines 583-586: process.env[persona.api_key_env] || ''
HasApiKey(persona) == persona.api_key_env \in env

(***************************************************************************)
(* Requests the clients can send.                                          *)
(***************************************************************************)
NoRequest == [method |-> "", path |-> "", authorization |-> NoHeader]

Methods == {"GET", "POST"}
\* "//" stands for a request target that new URL() rejects
Paths == { "/api/health", "/api/personas", "/api/chat", "/api/status",
           "/", "/missing.png", "/chat/pa01", "//" }

Usernames == { <<>>, <<"u">> }
Passwords == { <<>>, <<"p", ":", "q">> }

AuthHeaders ==
    { NoHeader,
      [scheme |-> "Bearer", decoded |-> <<>>],
      BasicHeader(<<"u", ":", "p", ":", "q">>),
      BasicHeader(<<"u", ":", "p">>),
      BasicHeader(<<"u", "p">>),
      BasicHeader(<<":">>) }

Requests == [method : Methods, path : Paths, authorization : AuthHeaders]

PersonaIdValues ==
    { JString("pa01", 4), JString(" pa01 ", 6), JString("pa02", 4), JString("nope", 4),
      JUndefined, JHostile }
MessageValues == { JString("Hello", 5), JString(" Hello ", 7), JString("   ", 3), JUndefined }
ModeValues ==
    { JUndefined, JString("interview", 9), JString("Scenario", 8), JString("bogus", 5),
      JString("constructor", 11) }

ChatEntries ==
    { ObjEntry("user", JString("a", 1)), ObjEntry("assistant", JString("b", 1)),
      ObjEntry("assistant", JUndefined), ObjEntry("user", JHostile) }

ChatHistories ==
    { NoHistory, NotArray }
    \cup { JArray(items) : items \in SeqsUpTo(ChatEntries, MaxChatHistory) }

Bodies ==
    { NullBody, PrimitiveBody }
    \cup { ObjectBody(p, m, md, h) :
            p \in PersonaIdValues, m \in MessageValues, md \in ModeValues,
            h \in ChatHistories }

\* what readJsonBody resolves or rejects with (part_001:501-538)
BodyOutcomes ==
    { Throw([message |-> "Request body too large.", statusCode |-> 413]),
      Throw([message |-> "Invalid JSON body.", statusCode |-> 400]) }
    \cup { Return(b) : b \in Bodies }

\* what the upstream call comes to (part_001:626-640): fetch rejects, the
\* body of the response is no JSON, or a response with a status and a JSON body;
\* detail is responseBody.error.message, "" when there is none
NetworkFailure == [kind |-> "network", ok |-> FALSE, detail |-> "", body |-> NullResponse]
NotJson == [kind |-> "notJson", ok |-> FALSE, detail |-> "", body |-> NullResponse]
UpstreamResponse(ok, detail, responseBody) ==
    [kind |-> "response", ok |-> ok, detail |-> detail, body |-> responseBody]

UpstreamBodies ==
    { FlatResponse(Str(<<" ", "b", " ">>)),
      NestedResponse(Absent, << OutputItem(<< ContentItem(Str(<<"a">>), Str(<<"c">>)) >>) >>),
      FlatResponse(Str(<<" ">>)),
      NestedResponse(Absent, << NullItem >>) }

UpstreamOutcomes ==
    { NetworkFailure, NotJson,
      UpstreamResponse(FALSE, "", FlatResponse(Absent)),
      UpstreamResponse(FALSE, "Rate limit reached.", FlatResponse(Absent)) }
    \cup { UpstreamResponse(TRUE, "", b) : b \in UpstreamBodies }

\* an outcome in which the upstream did not deliver a 2xx response
UpstreamFailed(outcome) == outcome.kind # "response" \/ ~outcome.ok

Failure(msg) == Throw([message |-> msg, statusCode |-> 0])

\* requestPersonaReply from the await of fetch on (part_001:626-651): the reply
\* it returns or the error it throws
ReplyOf(outcome) ==
    IF outcome.kind = "network" THEN Failure("fetch failed")
    ELSE IF outcome.kind = "notJson" THEN Failure("Unexpected token < in JSON at position 0")
    ELSE IF ~outcome.ok
    THEN Failure(IF outcome.detail # "" THEN outcome.detail ELSE "OpenAI API request failed.")
    ELSE LET reply == extractOutputText(outcome.body)
         IN  IF reply.state = "threw"
             THEN Failure("Cannot read properties of null (reading 'content')")
             ELSE IF reply.value = <<>>
             THEN Failure("No assistant response text was returned.")
             ELSE Return(reply.value)

(***************************************************************************)
(* The server: one request at a time goes through the handler              *)
(* (part_001:714-782); requests share nothing but the configuration.       *)
(***************************************************************************)
NoLocals ==
    /\ body = NoBody
    /\ personaId = EmptyText
    /\ message = EmptyText
    /\ mode = EmptyText
    /\ history = <<>>
    /\ input = <<>>

NoEffects ==
    /\ fetchCalls = <<>>
    /\ res = <<>>
    /\ bodyReads = 0
    /\ fileReads = 0

ServerIdle ==
    /\ alive = TRUE
    /\ pc = "idle"
    /\ req = NoRequest
    /\ NoLocals
    /\ NoEffects

\* state.currentPersona is null
NoPersona == EmptyText

\* no page is open: the variables of the browser client at rest
BrowserIdle ==
    /\ client = "chat.js"
    /\ conversationHistory = <<>>
    /\ isLoading = FALSE
    /\ cpc = "idle"
    /\ timeoutId = "none"
    /\ response = 0
    /\ shown = "none"
    /\ before = <<>>
    /\ frames = <<>>
    /\ wire = <<>>
    /\ buffer = <<>>
    /\ fullReply = ""
    /\ hadError = FALSE
    /\ currentPersona = NoPersona
    /\ sentTo = NoPersona

AuthOff ==
    /\ AUTH_ENABLED = FALSE
    /\ APP_USERNAME = <<>>
    /\ APP_PASSWORD = <<>>
    /\ env = {}

\* The configurations the server is started with: auth enabled with both
\* credentials set, under every history cap and with or without the key of
\* PA02; auth enabled with a credential left empty; auth disabled.
AllKeys == {"OPENAI_API_KEY_PA01", "OPENAI_API_KEY_PA02"}

Init ==
    /\ AUTH_ENABLED \in BOOLEAN
    /\ APP_USERNAME \in Usernames
    /\ APP_PASSWORD \in Passwords
    /\ MAX_HISTORY_MESSAGES \in 0..MaxN
    /\ MAX_DOSSIER_CHARS = MaxBudget
    /\ env \in { {"OPENAI_API_KEY_PA01"}, AllKeys }
    /\ ~AUTH_ENABLED => (APP_USERNAME # <<>> /\ APP_PASSWORD # <<>>)
    /\ (~AUTH_ENABLED \/ APP_USERNAME = <<>> \/ APP_PASSWORD = <<>>)
          => (MAX_HISTORY_MESSAGES = MaxN /\ env = AllKeys)
    /\ arg = <<>>
    /\ ret = NoCall
    /\ ServerIdle
    /\ BrowserIdle

\* the 'request' event of http.createServer
Receive(r) ==
    /\ alive /\ pc = "idle"
    /\ req' = r
    /\ pc' = "received"
    /\ UNCHANGED <<config, harness, browser, alive, locals, effects>>

\* lines 715-717: requireAuth answers 401 and the handler returns
RequireAuth ==
    /\ pc = "received"
    /\ IF isAuthenticated(req)
       THEN pc' = "authenticated" /\ res' = res
       ELSE pc' = "done" /\ res' = Append(res, Challenge401)
    /\ UNCHANGED <<config, harness, browser, alive, req, locals, fetchCalls, bodyReads, fileReads>>

\* line 719: new URL() throws outside any try; the async handler's promise
\* rejects, nothing handles the rejection and node ends the process
UrlThrows ==
    /\ pc = "authenticated"
    /\ req.path = "//"
    /\ alive' = FALSE
    /\ pc' = "crashed"
    /\ UNCHANGED <<config, harness, browser, req, locals, effects>>

\* lines 721-740 and 776-779: the routes that answer at once
RouteJson ==
    /\ pc = "authenticated"
    /\ req.path # "//"
    /\ \/ /\ req.method = "GET" /\ req.path = "/api/health"
          /\ res' = Append(res, sendJson(200, Payload("health", "", EmptyText)))
       \/ /\ req.method = "GET" /\ req.path = "/api/personas"
          /\ res' = Append(res, sendJson(200, PersonasPayload))
       \/ /\ ~(req.method = "GET" /\ req.path \in {"/api/health", "/api/personas"})
          /\ ~(req.method = "POST" /\ req.path = "/api/chat")
          /\ req.path \in {"/api/health", "/api/personas", "/api/chat", "/api/status"}
          /\ res' = Append(res, sendJson(404, ErrorPayload("API route not found.")))
    /\ pc' = "done"
    /\ UNCHANGED <<config, harness, browser, alive, req, locals, fetchCalls, bodyReads, fileReads>>

\* line 742: the chat branch starts to read the body
RouteChat ==
    /\ pc = "authenticated"
    /\ req.method = "POST" /\ req.path = "/api/chat"
    /\ pc' = "readingBody"
    /\ UNCHANGED <<config, harness, browser, alive, req, locals, effects>>

\* line 781 and serveStaticFile (part_001:669-712) up to fs.readFile
RouteStatic ==
    /\ pc = "authenticated"
    /\ req.path \in {"/", "/missing.png", "/chat/pa01"}
    /\ pc' = "static"
    /\ UNCHANGED <<config, harness, browser, alive, req, locals, effects>>

\* the callbacks of fs.readFile (part_001:684-711): the file, a 404, the
\* index.html fallback for a path without extension, or a 500
StaticRead(first, fallback) ==
    /\ pc = "static"
    /\ LET hasExtension == req.path # "/chat/pa01"
           again == first = "ENOENT" /\ ~hasExtension
       IN  /\ fileReads' = fileReads + (IF again THEN 2 ELSE 1)
           /\ res' = Append(res,
                 CASE first = "ok" -> sendJson(200, Payload("file", "", EmptyText))
                   [] first = "EIO" -> sendJson(500, ErrorPayload("Failed to read file."))
                   [] first = "ENOENT" /\ hasExtension -> sendJson(404, ErrorPayload("Not found."))
                   [] OTHER -> IF fallback = "ok"
                               THEN sendJson(200, Payload("file", "", EmptyText))
                               ELSE sendJson(404, ErrorPayload("Not found.")))
    /\ pc' = "done"
    /\ UNCHANGED <<config, harness, browser, alive, req, locals, fetchCalls, bodyReads>>

\* line 744: await readJsonBody(req); a rejection goes to the catch
ReadJsonBody(outcome) ==
    /\ pc = "readingBody"
    /\ bodyReads' = bodyReads + 1
    /\ IF outcome.state = "threw"
       THEN /\ res' = Append(res, CatchChat(outcome.value))
            /\ pc' = "done"
            /\ body' = body
       ELSE /\ body' = outcome.value
            /\ pc' = "bodyRead"
            /\ res' = res
    /\ UNCHANGED <<config, harness, browser, alive, req, personaId, message, mode, history, input,
                   fetchCalls, fileReads>>

\* lines 745-761: coercions and validation
ValidateChat ==
    /\ pc = "bodyRead"
    /\ LET l == ChatLocals(body)
       IN  IF l.state = "threw"
           THEN /\ res' = Append(res, CatchChat(l.value))
                /\ pc' = "done"
                /\ UNCHANGED <<personaId, message, mode, history>>
           ELSE /\ personaId' = l.value.personaId
                /\ message' = l.value.message
                /\ mode' = l.value.mode
                /\ history' = l.value.history
                /\ IF Validation(l.value) = "pass"
                   THEN pc' = "validated" /\ res' = res
                   ELSE /\ pc' = "done"
                        /\ res' = Append(res, sendJson(400, ErrorPayload(Validation(l.value))))
    /\ UNCHANGED <<config, harness, browser, alive, req, body, input, fetchCalls, bodyReads, fileReads>>

\* lines 763-764 and 582-624: the key is looked up and the prompt assembled
AssemblePrompt ==
    /\ pc = "validated"
    /\ LET persona == personaById_get(personaId)
       IN  IF ~HasApiKey(persona)
           THEN /\ res' = Append(res, CatchChat([message |-> "Missing API key.",
                                                 statusCode |-> 0]))
                /\ pc' = "done"
                /\ input' = input
           ELSE /\ input' = PromptInput(persona, mode, message, history)
                /\ pc' = "assembled"
                /\ res' = res
    /\ UNCHANGED <<config, harness, browser, alive, req, body, personaId, message, mode, history,
                   fetchCalls, bodyReads, fileReads>>

\* lines 626-638: fetch() is called with the input list
CallUpstream ==
    /\ pc = "assembled"
    /\ fetchCalls' = Append(fetchCalls,
           [ url |-> "https://api.openai.com/v1/responses",
             key |-> personaById_get(personaId).api_key_env,
             model |-> DEFAULT_MODEL,
             input |-> input ])
    /\ pc' = "upstream"
    /\ UNCHANGED <<config, harness, browser, alive, req, locals, res, bodyReads, fileReads>>

\* a handler whose await of requestPersonaReply stands outside the try: a failure
\* of the upstream call is an unhandled rejection and ends the process
UpstreamResponds_uncaught(outcome) ==
    /\ pc = "upstream"
    /\ LET reply == ReplyOf(outcome)
       IN  IF reply.state = "returned"
           THEN /\ res' = Append(res, sendJson(200, Payload("reply", "", reply.value)))
                /\ pc' = "done"
                /\ alive' = alive
           ELSE /\ res' = res
                /\ pc' = "crashed"
                /\ alive' = FALSE
    /\ UNCHANGED <<config, harness, browser, req, locals, fetchCalls, bodyReads, fileReads>>

\* requestPersonaReply without the test of the extracted reply (lines 647-649)
UpstreamResponds_noEmptyCheck(outcome) ==
    /\ pc = "upstream"
    /\ LET reply == ReplyOf(outcome)
           extracted == extractOutputText(outcome.body)
       IN  res' = Append(res,
                 IF reply.state = "returned"
                 THEN sendJson(200, Payload("reply", "", reply.value))
                 ELSE IF outcome.kind = "response" /\ outcome.ok /\ extracted.state = "returned"
                 THEN sendJson(200, Payload("reply", "", extracted.value))
                 ELSE CatchChat(reply.value))
    /\ pc' = "done"
    /\ UNCHANGED <<config, harness, browser, alive, req, locals, fetchCalls, bodyReads, fileReads>>

\* lines 640-651 and 765-772: the reply, or the error the catch reports
UpstreamResponds(outcome) ==
    /\ pc = "upstream"
    /\ LET reply == ReplyOf(outcome)
       IN  res' = Append(res, IF reply.state = "returned"
                              THEN sendJson(200, Payload("reply", "", reply.value))
                              ELSE CatchChat(reply.value))
    /\ pc' = "done"
    /\ UNCHANGED <<config, harness, browser, alive, req, locals, fetchCalls, bodyReads, fileReads>>

\* the handler has returned; the next request finds nothing of this one
Finish ==
    /\ pc = "done"
    /\ pc' = "idle"
    /\ req' = NoRequest
    /\ body' = NoBody
    /\ personaId' = EmptyText
    /\ message' = EmptyText
    /\ mode' = EmptyText
    /\ history' = <<>>
    /\ input' = <<>>
    /\ fetchCalls' = <<>>
    /\ res' = <<>>
    /\ bodyReads' = 0
    /\ fileReads' = 0
    /\ UNCHANGED <<config, harness, browser, alive>>

Next ==
    \/ \E r \in Requests : Receive(r)
    \/ RequireAuth
    \/ UrlThrows
    \/ RouteJson
    \/ RouteChat
    \/ RouteStatic
    \/ \E first \in {"ok", "ENOENT", "EIO"}, fallback \in {"ok", "ENOENT"} : StaticRead(first, fallback)
    \/ \E outcome \in BodyOutcomes : ReadJsonBody(outcome)
    \/ ValidateChat
    \/ AssemblePrompt
    \/ CallUpstream
    \/ \E outcome \in UpstreamOutcomes : UpstreamResponds(outcome)
    \/ Finish

Spec == Init /\ [][Next]_vars

(***************************************************************************)
(* The server with the progress its scheduling guarantees: node runs the   *)
(* handler's own steps and the callbacks of fs.readFile; nothing in the    *)
(* code makes the client deliver its body or the upstream deliver its      *)
(* answer, so these two steps are not fair.  One configuration: auth       *)
(* enabled with both credentials, every key set.                           *)
(***************************************************************************)
InitLive ==
    /\ Init
    /\ AUTH_ENABLED /\ APP_USERNAME # <<>> /\ APP_PASSWORD # <<>>
    /\ MAX_HISTORY_MESSAGES = MaxN
    /\ env = AllKeys

HandlerStep ==
    \/ RequireAuth
    \/ UrlThrows
    \/ RouteJson
    \/ RouteChat
    \/ RouteStatic
    \/ \E first \in {"ok", "ENOENT", "EIO"}, fallback \in {"ok", "ENOENT"} : StaticRead(first, fallback)
    \/ ValidateChat
    \/ AssemblePrompt
    \/ CallUpstream
    \/ Finish

SpecLive == InitLive /\ [][Next]_vars /\ WF_vars(HandlerStep)

(***************************************************************************)
(* The browser clients.  Four submit handlers are in the repository:       *)
(*   "part_000"  src/unnamed/part_000:52-95                                *)
(*   "chat.js"   src/static/js/chat.js:55-109                              *)
(*   "timer"     src/unnamed/part_001:80-150, which arms an abort timer    *)
(*   "app.js"    sendMessage, src/unnamed/part_001:890-931                 *)
(* A handler runs from one await to the next without interruption; the     *)
(* network decides when and how fetch() and response.json() settle.        *)
(***************************************************************************)
Clients == {"part_000", "chat.js", "timer", "app.js"}
\* the clients that arm an abort timer
TimerClients == {"timer", "start.sh"}
\* the clients that treat 401 apart
SessionClients == {"chat.js", "timer", "start.sh"}
\* the clients whose error paths call conversationHistory.pop()
PoppingClients == {"chat.js", "timer", "start.sh"}

UserTurn == [role |-> "user", content |-> "q"]
AssistantTurn(content) == [role |-> "assistant", content |-> content]

\* Array.prototype.pop, for its effect on the array
Pop(h) == IF h = <<>> THEN <<>> ELSE SubSeq(h, 1, Len(h) - 1)

\* statuses of the responses and what their JSON body holds: a reply, an
\* error, or neither
Statuses == {200, 401, 500}
DataKinds == {"reply", "error", "empty"}
\* data.reply
ReplyField(data) == IF data = "reply" THEN "r" ELSE "undefined"

\* the submit handler up to its await of fetch; sendMessage returns at once
\* when no persona is selected (part_001:891)
Submit ==
    /\ cpc = "idle"
    /\ ~isLoading
    /\ client = "app.js" => currentPersona # NoPersona
    /\ Len(conversationHistory) < MaxClientHistory
    /\ before' = conversationHistory
    /\ conversationHistory' = Append(conversationHistory, UserTurn)
    /\ isLoading' = TRUE
    /\ timeoutId' = IF client \in TimerClients THEN "armed" ELSE timeoutId
    /\ response' = 0
    /\ shown' = "user"
    /\ cpc' = "fetching"
    /\ sentTo' = IF client = "app.js" THEN currentPersona ELSE sentTo
    /\ UNCHANGED <<config, harness, server, client, currentPersona, stream>>

\* the catch block: err is an AbortError or another error
Catch(aborted) ==
    /\ shown' = IF client = "app.js" THEN "requestFailed"
                ELSE IF client \in TimerClients /\ aborted THEN "timeout"
                ELSE "connection"
    /\ conversationHistory' = IF client \in PoppingClients
                              THEN Pop(conversationHistory) ELSE conversationHistory
    /\ isLoading' = FALSE
    /\ cpc' = "idle"

\* fetch resolves: the headers of a response have arrived
FetchResolves(status) ==
    /\ cpc = "fetching"
    /\ timeoutId' = IF client \in TimerClients THEN "none" ELSE timeoutId
    /\ response' = status
    /\ IF status = 401 /\ client \in SessionClients
       THEN /\ shown' = "expired"
            /\ conversationHistory' = Pop(conversationHistory)
            /\ isLoading' = FALSE
            /\ cpc' = "idle"
       ELSE /\ cpc' = "reading"
            /\ UNCHANGED <<shown, conversationHistory, isLoading>>
    /\ UNCHANGED <<config, harness, server, client, session, before, stream>>

\* fetch rejects: the network failed; clearTimeout is not reached
FetchRejects ==
    /\ cpc = "fetching"
    /\ Catch(FALSE)
    /\ timeoutId' = IF timeoutId = "armed" THEN "stale" ELSE timeoutId
    /\ UNCHANGED <<config, harness, server, client, session, response, before, stream>>

\* response.json() resolves with the body
JsonResolves(data) ==
    /\ cpc = "reading"
    /\ LET ok == response \in 200..299
           failed == CASE client = "timer" -> ~ok \/ data # "reply"
                       [] client = "app.js" -> ~ok
                       [] client = "start.sh" -> TRUE
                       [] OTHER -> data = "error"
       IN  IF failed
           THEN /\ shown' = IF client = "app.js" THEN "requestFailed"
                            ELSE IF client = "timer" /\ ok /\ data = "empty" THEN "noResponse"
                            ELSE "serverError"
                /\ conversationHistory' = IF client \in PoppingClients
                                          THEN Pop(conversationHistory)
                                          ELSE conversationHistory
           ELSE /\ shown' = "assistant"
                /\ conversationHistory' =
                       Append(conversationHistory, AssistantTurn(ReplyField(data)))
    /\ isLoading' = FALSE
    /\ cpc' = "idle"
    /\ UNCHANGED <<config, harness, server, client, session, timeoutId, response, before, stream>>

\* response.json() rejects: the body is no JSON or the connection broke
JsonRejects ==
    /\ cpc = "reading"
    /\ Catch(FALSE)
    /\ UNCHANGED <<config, harness, server, client, session, timeoutId, response, before, stream>>

\* the timer set at part_001:98 fires: controller.abort() makes a pending fetch
\* reject with an AbortError; on a settled fetch it does nothing
TimerFires ==
    /\ timeoutId \in {"armed", "stale"}
    /\ timeoutId' = "none"
    /\ IF timeoutId = "armed" /\ cpc = "fetching"
       THEN Catch(TRUE)
       ELSE UNCHANGED <<shown, conversationHistory, isLoading, cpc>>
    /\ UNCHANGED <<config, harness, server, client, session, response, before, stream>>

InitClient ==
    /\ MAX_HISTORY_MESSAGES = 0
    /\ MAX_DOSSIER_CHARS = 0
    /\ AuthOff
    /\ arg = <<>>
    /\ ret = NoCall
    /\ ServerIdle
    /\ client \in Clients
    /\ conversationHistory = <<>>
    /\ isLoading = FALSE
    /\ cpc = "idle"
    /\ timeoutId = "none"
    /\ response = 0
    /\ shown = "none"
    /\ before = <<>>
    /\ frames = <<>>
    /\ wire = <<>>
    /\ buffer = <<>>
    /\ fullReply = ""
    /\ hadError = FALSE
    \* the single-page client has a session with PA01 open
    /\ currentPersona = Text("pa01", 4)
    /\ sentTo = NoPersona

NextClient ==
    \/ Submit
    \/ \E status \in Statuses : FetchResolves(status)
    \/ FetchRejects
    \/ \E data \in DataKinds : JsonResolves(data)
    \/ JsonRejects
    \/ TimerFires

SpecClient == InitClient /\ [][NextClient]_vars

\* The clients with the progress the browser guarantees: an armed timer fires.
\* Nothing makes the network deliver the headers or the body of a response.
SpecClientLive == InitClient /\ [][NextClient]_vars /\ WF_vars(TimerFires)

(***************************************************************************)
(* The chat page with its clear button.  The click handler                 *)
(* (chat.js:48-52, part_000:45-49, part_001:70-74) runs whenever the user  *)
(* clicks: the button is not disabled while a request is in flight         *)
(* (setLoading disables sendBtn only).  The single-page client has no      *)
(* clear button.                                                           *)
(***************************************************************************)
ClearingClients == {"part_000", "chat.js", "timer"}

\* conversationHistory = []; the messages are removed and the welcome is shown
ClearChat ==
    /\ client \in ClearingClients
    /\ conversationHistory' = <<>>
    /\ shown' = "welcome"
    /\ UNCHANGED <<config, harness, server, client, session, isLoading, cpc, timeoutId, response,
                   before, stream>>

NextPage ==
    \/ NextClient
    \/ ClearChat

SpecPage == InitClient /\ [][NextPage]_vars

(***************************************************************************)
(* The sessions of the single-page client (part_001:842-858, 941-945).     *)
(* The persona cards are on the home view and the back button on the chat  *)
(* view; neither is disabled while a request is in flight, and neither     *)
(* touches state.sending.                                                  *)
(***************************************************************************)
PersonaIds == { personas[i].id : i \in 1..Len(personas) }

\* a click on a persona card: startSession(persona)
StartSession(p) ==
    /\ client = "app.js"
    /\ currentPersona = NoPersona
    /\ currentPersona' = p
    /\ conversationHistory' = <<>>
    /\ shown' = "setup"
    /\ UNCHANGED <<config, harness, server, client, isLoading, cpc, timeoutId, response,
                   before, stream, sentTo>>

\* a click on the back button
Back ==
    /\ client = "app.js"
    /\ currentPersona # NoPersona
    /\ currentPersona' = NoPersona
    /\ conversationHistory' = <<>>
    /\ UNCHANGED <<config, harness, server, client, isLoading, cpc, timeoutId, response,
                   shown, before, stream, sentTo>>

\* the page as loaded: the home view, no persona selected
InitSession ==
    /\ MAX_HISTORY_MESSAGES = 0
    /\ MAX_DOSSIER_CHARS = 0
    /\ AuthOff
    /\ arg = <<>>
    /\ ret = NoCall
    /\ ServerIdle
    /\ client = "app.js"
    /\ conversationHistory = <<>>
    /\ isLoading = FALSE
    /\ cpc = "idle"
    /\ timeoutId = "none"
    /\ response = 0
    /\ shown = "none"
    /\ before = <<>>
    /\ frames = <<>>
    /\ wire = <<>>
    /\ buffer = <<>>
    /\ fullReply = ""
    /\ hadError = FALSE
    /\ currentPersona = NoPersona
    /\ sentTo = NoPersona

NextSession ==
    \/ \E p \in PersonaIds : StartSession(p)
    \/ Back
    \/ Submit
    \/ \E status \in Statuses : FetchResolves(status)
    \/ FetchRejects
    \/ \E data \in DataKinds : JsonResolves(data)
    \/ JsonRejects

SpecSession == InitSession /\ [][NextSession]_vars

(***************************************************************************)
(* The streaming client (src/start.sh:71-197).  It submits like the timer  *)
(* client and reads a 200 response that is no JSON as a stream of          *)
(* server-sent events.  The response body is a sequence of symbols: the    *)
(* prefix "data: ", the JSON text of a frame, and "\n"; the network cuts   *)
(* it into chunks wherever it likes.                                       *)
(***************************************************************************)
TokenFrame(t) == [kind |-> "token", text |-> t]
DoneFrame == [kind |-> "done", text |-> ""]
ErrorFrame(msg) == [kind |-> "error", text |-> msg]

Tokens == {"a", "b"}
FrameValues == { TokenFrame(t) : t \in Tokens } \cup { DoneFrame, ErrorFrame("e") }

\* JSON.stringify of a frame, as the server writes it
Encode(frame) == frame.kind \o ":" \o frame.text
\* JSON.parse of a payload; text that is no frame parses to an object without
\* error and token
Decode(payload) ==
    IF \E f \in FrameValues : Encode(f) = payload
    THEN CHOOSE f \in FrameValues : Encode(f) = payload
    ELSE [kind |-> "other", text |-> ""]

\* one event: "data: <json>\n\n"
EventOf(frame) == << "data: ", Encode(frame), "\n", "\n" >>

RECURSIVE Wire(_)
Wire(fs) == IF fs = <<>> THEN <<>> ELSE EventOf(Head(fs)) \o Wire(Tail(fs))

\* The streams the server sends: token frames, then the completion marker or
\* an error marker, after which it ends the response; or token frames only,
\* when the response ends before a marker was written.
StreamsSent ==
    { toks \o end : toks \in SeqsUpTo({ TokenFrame(t) : t \in Tokens }, MaxTokenFrames),
                    end \in { <<>>, <<DoneFrame>>, <<ErrorFrame("e")>> } }

\* buffer.split("\n")
RECURSIVE SplitLines(_)
SplitLines(s) ==
    IF IndexOf(s, "\n") < 0 THEN <<s>>
    ELSE <<SubSeq(s, 1, IndexOf(s, "\n"))>>
            \o SplitLines(SubSeq(s, IndexOf(s, "\n") + 2, Len(s)))

\* a reader that forgets the incomplete last line instead of keeping it
Carry_dropped(pieces) == <<>>

\* lines 149-151: lines.pop() is kept as the buffer
Carry(pieces) == pieces[Len(pieces)]

\* line 154: line.startsWith("data: "), and a payload follows
IsDataLine(line) == Len(line) = 2 /\ line[1] = "data: "

\* lines 153-172: the for loop over the complete lines, from the fullReply and
\* hadError in acc; an error frame ends it
RECURSIVE ProcessLines(_, _)
ProcessLines(lines, acc) ==
    IF lines = <<>> THEN acc
    ELSE IF ~IsDataLine(Head(lines)) THEN ProcessLines(Tail(lines), acc)
    ELSE LET parsed == Decode(Head(lines)[2])
         IN  IF parsed.kind = "error"
             THEN [fullReply |-> parsed.text, hadError |-> TRUE]
             ELSE IF parsed.kind = "token"
             THEN ProcessLines(Tail(lines), [acc EXCEPT !.fullReply = @ \o parsed.text])
             ELSE ProcessLines(Tail(lines), acc)

\* lines 176-186, after the loop: the turn is recorded or the user turn removed
Settle(reply, failed) ==
    /\ shown' = IF failed THEN "streamError"
                ELSE IF reply = "" THEN "noResponse" ELSE "assistant"
    /\ conversationHistory' = IF failed \/ reply = ""
                              THEN Pop(conversationHistory)
                              ELSE Append(conversationHistory, AssistantTurn(reply))
    /\ cpc' = "idle"

\* lines 105-140: fetch resolves with a 200 event stream; the timer is cleared,
\* the typing indicator removed and an empty assistant bubble added
OpenStream(fs) ==
    /\ client = "start.sh"
    /\ cpc = "fetching"
    /\ timeoutId' = "none"
    /\ response' = 200
    /\ isLoading' = FALSE
    /\ shown' = "bubble"
    /\ frames' = fs
    /\ wire' = Wire(fs)
    /\ buffer' = <<>>
    /\ fullReply' = ""
    /\ hadError' = FALSE
    /\ cpc' = "streaming"
    /\ UNCHANGED <<config, harness, server, client, session, conversationHistory, before>>

\* lines 126-132: a response that is neither JSON nor 2xx, e.g. a 502 page
FetchResolvesNotOk ==
    /\ client = "start.sh"
    /\ cpc = "fetching"
    /\ timeoutId' = "none"
    /\ response' = 500
    /\ isLoading' = FALSE
    /\ shown' = "serverError"
    /\ conversationHistory' = Pop(conversationHistory)
    /\ cpc' = "idle"
    /\ UNCHANGED <<config, harness, server, client, session, before, stream>>

\* lines 144-174: reader.read() resolves with the next k symbols of the body
ReadChunk(k) ==
    /\ cpc = "streaming"
    /\ k \in 1..Len(wire)
    /\ LET pieces == SplitLines(buffer \o SubSeq(wire, 1, k))
           lines == SubSeq(pieces, 1, Len(pieces) - 1)
           acc == ProcessLines(lines, [fullReply |-> fullReply, hadError |-> hadError])
       IN  /\ wire' = SubSeq(wire, k + 1, Len(wire))
           /\ buffer' = Carry(pieces)
           /\ fullReply' = acc.fullReply
           /\ hadError' = acc.hadError
           /\ IF acc.hadError
              THEN Settle(acc.fullReply, TRUE)
              ELSE UNCHANGED <<shown, conversationHistory, cpc>>
    /\ UNCHANGED <<config, harness, server, client, session, isLoading, timeoutId, response, before,
                   frames>>

\* line 146: reader.read() resolves with done, the response has ended
ReadDone ==
    /\ cpc = "streaming"
    /\ wire = <<>>
    /\ Settle(fullReply, hadError)
    /\ UNCHANGED <<config, harness, server, client, session, isLoading, timeoutId, response, before,
                   stream>>

\* reader.read() rejects: the connection broke; the catch of lines 188-196
ReadFails ==
    /\ cpc = "streaming"
    /\ Catch(FALSE)
    /\ UNCHANGED <<config, harness, server, client, session, timeoutId, response, before, stream>>

InitStream ==
    /\ MAX_HISTORY_MESSAGES = 0
    /\ MAX_DOSSIER_CHARS = 0
    /\ AuthOff
    /\ arg = <<>>
    /\ ret = NoCall
    /\ ServerIdle
    /\ client = "start.sh"
    /\ conversationHistory = <<>>
    /\ isLoading = FALSE
    /\ cpc = "idle"
    /\ timeoutId = "none"
    /\ response = 0
    /\ shown = "none"
    /\ before = <<>>
    /\ frames = <<>>
    /\ wire = <<>>
    /\ buffer = <<>>
    /\ fullReply = ""
    /\ hadError = FALSE
    /\ currentPersona = NoPersona
    /\ sentTo = NoPersona

NextStream ==
    \/ Submit
    \/ \E status \in Statuses : FetchResolves(status)
    \/ FetchResolvesNotOk
    \/ FetchRejects
    \/ \E data \in DataKinds : JsonResolves(data)
    \/ JsonRejects
    \/ TimerFires
    \/ \E fs \in StreamsSent : OpenStream(fs)
    \/ \E k \in 1..MaxChunk : ReadChunk(k)
    \/ ReadDone
    \/ ReadFails

\* One submission is followed at a time.  The handler clears isLoading before it
\* reads the stream, so a second submission can start meanwhile; it has a
\* reader, a buffer and a fullReply of its own.
SpecStream == InitStream /\ [][NextStream]_vars

(***************************************************************************)
(* sendMessage of the single-page client up to its request                 *)
(* (part_001:890-915) and the prompt the server assembles from that body   *)
(* (part_001:745-748 and 607-624), as a function of state.history and the  *)
(* text typed.                                                             *)
(***************************************************************************)
\* JSON.stringify of the turns of a client history: the entries of the body
EntriesOf(h) ==
    [i \in 1..Len(h) |-> ObjEntry(h[i].role, JString(h[i].content, Len(h[i].content)))]

\* lines 901-914: payload.history is state.history itself, not a copy, and the
\* user turn is pushed to state.history (line 908) before JSON.stringify(payload)
\* runs (line 914): the body holds the history with the new turn at its end
sendMessage_body(h, text) ==
    ObjectBody(JString("pa01", 4), JString(text, Len(text)), JString("interview", 9),
               JArray(EntriesOf(Append(h, [role |-> "user", content |-> text]))))

\* the input list the server builds from a body that passes the validation
PromptOfBody(b) ==
    LET l == ChatLocals(b).value
    IN  PromptInput(personaById_get(l.personaId), l.mode, l.message, l.history)

\* the histories sendMessage, startSession and the back button leave behind:
\* user turns 'a' and replies 'b', no reply directly after a reply
SpaTurns == { [role |-> "user", content |-> "a"], [role |-> "assistant", content |-> "b"] }
SpaHistories ==
    { h \in SeqsUpTo(SpaTurns, MaxClientHistory) :
        \A i \in 2..Len(h) : h[i].role = "assistant" => h[i - 1].role = "user" }
SpaTexts == { "q", "hi", "why" }

\* the server keeps at least one turn of history
InitSend ==
    /\ MAX_HISTORY_MESSAGES \in 1..MaxN
    /\ MAX_DOSSIER_CHARS = MaxBudget
    /\ AuthOff
    /\ arg \in [history : SpaHistories, text : SpaTexts]
    /\ ret = NoCall
    /\ ServerIdle
    /\ BrowserIdle

CallSendMessage ==
    /\ ret.state = "none"
    /\ ret' = Return(PromptOfBody(sendMessage_body(arg.history, arg.text)))
    /\ UNCHANGED <<config, arg, server, browser>>

NextSend == CallSendMessage

SpecSend == InitSend /\ [][NextSend]_vars

(***************************************************************************)
(* Specification of normalizeHistory as a function of its argument and of  *)
(* the configured MAX_HISTORY_MESSAGES.                                    *)
(***************************************************************************)
InitNormalize ==
    /\ MAX_HISTORY_MESSAGES \in 0..MaxN
    /\ MAX_DOSSIER_CHARS = 0
    /\ AuthOff
    /\ arg \in HistoryValues
    /\ ret = NoCall
    /\ ServerIdle
    /\ BrowserIdle

CallNormalizeHistory ==
    /\ ret.state = "none"
    /\ ret' = normalizeHistory(arg)
    /\ UNCHANGED <<config, arg, server, browser>>

NextNormalize == CallNormalizeHistory

SpecNormalize == InitNormalize /\ [][NextNormalize]_vars

(***************************************************************************)
(* Specification of truncateText applied to the persona's dossier with the *)
(* configured MAX_DOSSIER_CHARS (requestPersonaReply, part_001:593).       *)
(***************************************************************************)
InitTruncate ==
    /\ MAX_HISTORY_MESSAGES = 0
    /\ MAX_DOSSIER_CHARS \in 0..MaxBudget
    /\ AuthOff
    /\ arg \in { Dossier(n) : n \in 0..MaxDossierLen }
    /\ ret = NoCall
    /\ ServerIdle
    /\ BrowserIdle

CallTruncateText ==
    /\ ret.state = "none"
    /\ ret' = Return(truncateText(arg, MAX_DOSSIER_CHARS))
    /\ UNCHANGED <<config, arg, server, browser>>

NextTruncate == CallTruncateText

SpecTruncate == InitTruncate /\ [][NextTruncate]_vars

(***************************************************************************)
(* Specification of extractOutputText as a function of the response body.  *)
(***************************************************************************)
InitExtract ==
    /\ MAX_HISTORY_MESSAGES = 0
    /\ MAX_DOSSIER_CHARS = 0
    /\ AuthOff
    /\ arg \in ResponseBodies
    /\ ret = NoCall
    /\ ServerIdle
    /\ BrowserIdle

CallExtractOutputText ==
    /\ ret.state = "none"
    /\ ret' = extractOutputText(arg)
    /\ UNCHANGED <<config, arg, server, browser>>

NextExtract == CallExtractOutputText

SpecExtract == InitExtract /\ [][NextExtract]_vars

(***************************************************************************)
(* Reference definitions used by the properties of normalizeHistory: what  *)
(* the specification calls a surviving turn, written independently of the  *)
(* code's filter/map chain.                                                *)
(***************************************************************************)
\* the text the specification expects for a content value: its text form,
\* cut to the per-turn cap; absent, null and empty contents give no text
ExpectedContent(c) ==
    CASE c.t = "string" -> IF c.len = 0 THEN EmptyText
                           ELSE Text(c.id, IF c.len > CONTENT_CAP THEN CONTENT_CAP ELSE c.len)
      [] c.t = "number" -> Text(c.id, c.len)
      [] OTHER          -> EmptyText

IsSurvivor(m) ==
    /\ m.kind = "object"
    /\ m.role \in {"user", "assistant"}
    /\ ExpectedContent(m.content).len > 0

RECURSIVE Survivors(_)
Survivors(items) ==
    IF items = <<>> THEN <<>>
    ELSE LET m == Head(items)
         IN  (IF IsSurvivor(m)
              THEN << [role |-> m.role, content |-> ExpectedContent(m.content)] >>
              ELSE <<>>) \o Survivors(Tail(items))

IsSuffixOf(s, t) ==
    /\ Len(s) <= Len(t)
    /\ s = SubSeq(t, Len(t) - Len(s) + 1, Len(t))

\* C1: for every client-supplied history array and every configured maximum N,
\* normalizeHistory returns at most N turns, and they are the most recent of the
\* turns that survive filtering, in their original relative order.
C1_AtMostNMostRecent ==
    ret.state = "returned" =>
        LET ref == Survivors(arg.items)
        IN  /\ Len(ret.value) <= MAX_HISTORY_MESSAGES
            /\ Len(ret.value) = Min(MAX_HISTORY_MESSAGES, Len(ref))
            /\ IsSuffixOf(ret.value, ref)

\* C2: every turn returned by normalizeHistory has role 'user' or 'assistant' and
\* a non-empty text content of length at most 4000; entries that are not objects,
\* entries with any other role and entries with empty content are dropped, and the
\* surviving turns keep the order the client supplied (the returned turns are a
\* run of consecutive surviving turns ending with the last one).
C2_TurnsWellFormedInOrder ==
    ret.state = "returned" =>
        /\ \A i \in 1..Len(ret.value) :
              /\ ret.value[i].role \in {"user", "assistant"}
              /\ ret.value[i].content.len >= 1
              /\ ret.value[i].content.len <= CONTENT_CAP
        /\ IsSuffixOf(ret.value, Survivors(arg.items))

\* C2's case: an array with an entry that is dropped, a content that is cut to the
\* cap and two turns whose order can be observed
C2_Witness ==
    /\ ret.state = "returned"
    /\ Len(ret.value) = 2
    /\ Len(arg.items) = 3
    /\ ret.value[1].role # ret.value[2].role
    /\ \E i \in 1..2 : ret.value[i].content.len = CONTENT_CAP

ContainsMarker(s) ==
    \E i \in 1..(Len(s) - MARKER_LEN + 1) : SubSeq(s, i, i + MARKER_LEN - 1) = ELISION_MARKER

\* C3: for every dossier and every character budget B (MAX_DOSSIER_CHARS): if the
\* dossier is longer than B, the dossier section of the assembled system prompt has
\* length at most B and contains the elision marker; if the dossier is not longer
\* than B, it is included verbatim.
C3_DossierWithinBudget ==
    ret.state = "returned" =>
        IF Len(arg) > MAX_DOSSIER_CHARS
        THEN Len(ret.value) <= MAX_DOSSIER_CHARS /\ ContainsMarker(ret.value)
        ELSE ret.value = arg


(***************************************************************************)
(* Reference predicates of the server properties, stated on the request    *)
(* as the client sent it.                                                  *)
(***************************************************************************)
\* both credentials are set
Configured == APP_USERNAME # <<>> /\ APP_PASSWORD # <<>>

\* the request carries "Basic " + base64(username ":" password)
CorrectCredentials(r) ==
    r.authorization = [scheme |-> "Basic", decoded |-> APP_USERNAME \o <<":">> \o APP_PASSWORD]

IsChatRequest == req.method = "POST" /\ req.path = "/api/chat"

\* the only response is the 401 challenge
Answered401 ==
    /\ pc = "done"
    /\ Len(res) = 1
    /\ res[1].status = 401
    /\ res[1].challenge
    /\ res[1].payload.kind = "error"

\* the request went past the gate: no 401, and a finished handler has answered once
PassedGate ==
    /\ pc \notin {"idle", "received"}
    /\ \A i \in 1..Len(res) : res[i].status # 401 /\ ~res[i].challenge
    /\ pc = "done" => Len(res) = 1

\* the persona a personaId value names, surrounding blanks aside
NamesPersona(v) == v.t = "string" /\ v.id \in {"pa01", " pa01 ", "pa02"}
KeyOf(v) == IF v.id = "pa02" THEN "OPENAI_API_KEY_PA02" ELSE "OPENAI_API_KEY_PA01"

\* the message has a character that is no blank
MessageGiven(v) == v.t = "string" /\ v.id \in {"Hello", " Hello "}

\* the mode is absent or names one of the three modes, in any letter case
ModeRecognised(v) ==
    \/ v.t = "undefined"
    \/ v.t = "string" /\ v.id \in {"interview", "scenario", "usability", "Scenario", "INTERVIEW"}

\* String() throws on none of the body's values
Coercible(b) ==
    /\ b.kind = "object"
    /\ b.personaId.t # "hostile" /\ b.message.t # "hostile" /\ b.mode.t # "hostile"
    /\ \A i \in 1..Len(b.history.items) : b.history.items[i].content.t # "hostile"

\* an assistant turn with text among the turns the client supplied
AssistantTurnSupplied(b) ==
    \E i \in 1..Len(b.history.items) :
        /\ b.history.items[i].kind = "object"
        /\ b.history.items[i].role = "assistant"
        /\ b.history.items[i].content.t = "string"
        /\ b.history.items[i].content.len > 0

InstructionsOf(sys) ==
    { i \in 1..Len(sys) : sys[i].kind = "instruction" }

\* C4: for every chat request, the system prompt carries the first-reply
\* instruction exactly when the history supplied with the request contains no
\* prior assistant turn, and the 'do not repeat the FYI sentence' instruction in
\* every other case; exactly one of the two instructions is present.  (An entry
\* with role assistant and no text is not counted as a turn.)
C4_FirstReplyIffNoAssistantSupplied ==
    \A k \in 1..Len(fetchCalls) :
        LET sys == fetchCalls[k].input[1].content
        IN  /\ Cardinality(InstructionsOf(sys)) = 1
            /\ \A i \in InstructionsOf(sys) :
                  /\ sys[i].value \in {FIRST_REPLY, NOT_FIRST_REPLY}
                  /\ (sys[i].value = FIRST_REPLY) <=> ~AssistantTurnSupplied(body)

\* C5: the input list sent upstream by requestPersonaReply consists of exactly
\* one system entry at position 1, then one entry per history turn in the same
\* order and with the same role and content, then the new user message as the
\* final entry; its length is the number of history turns plus 2.  The history
\* turns are the normalized turns, which are the last surviving turns of the body.
C5_InputListShape ==
    \A k \in 1..Len(fetchCalls) :
        LET inp == fetchCalls[k].input
            n == Len(inp)
        IN  /\ n = Len(history) + 2
            /\ inp[1].role = "system"
            /\ \A i \in 2..n : inp[i].role # "system"
            /\ \A i \in 1..Len(history) :
                  inp[i + 1].role = history[i].role /\ inp[i + 1].content = history[i].content
            /\ IsSuffixOf([i \in 1..(n - 2) |-> inp[i + 1]],
                          Survivors(body.history.items))
            /\ inp[n].role = "user"
            /\ inp[n].content = message
            /\ inp[n].content = Text("Hello", 5)

\* C5's case: a call was made with two history turns before the new message
C5_Witness ==
    /\ Len(fetchCalls) = 1
    /\ Len(fetchCalls[1].input) = 4
    /\ fetchCalls[1].input[2].role = "user"
    /\ fetchCalls[1].input[3].role = "assistant"

\* mode 'interview', a known persona id, message 'Hello' and an empty history
HelloRequest ==
    /\ IsChatRequest
    /\ body.kind = "object"
    /\ NamesPersona(body.personaId)
    /\ body.message = JString("Hello", 5)
    /\ body.mode = JString("interview", 9)
    /\ body.history \in {NoHistory, JArray(<<>>)}

RolesOf(inp, role) == { i \in 1..Len(inp) : inp[i].role = role }

\* C6: a POST /api/chat with mode 'interview', a known persona id, message
\* 'Hello' and an empty history produces one request to the completion endpoint
\* whose input contains exactly one system entry and exactly one user entry (on
\* a server where the request passes the auth gate and the persona's key is set).
C6_HelloRoundTrip ==
    HelloRequest =>
        /\ Len(fetchCalls) <= 1
        /\ \A k \in 1..Len(fetchCalls) :
              /\ Cardinality(RolesOf(fetchCalls[k].input, "system")) = 1
              /\ Cardinality(RolesOf(fetchCalls[k].input, "user")) = 1
              /\ Len(fetchCalls[k].input) = 2
        /\ (pc \in {"upstream", "done"} /\ KeyOf(body.personaId) \in env)
              => Len(fetchCalls) = 1

\* C6's case: the Hello request was answered with the reply of its one call
C6_Witness ==
    /\ HelloRequest
    /\ pc = "done"
    /\ Len(fetchCalls) = 1
    /\ res[1].status = 200

\* C7: when auth is enabled, a request carrying Basic credentials equal to the
\* configured (non-empty) username and password is served; a request with
\* missing, malformed or different credentials is answered 401 with a
\* WWW-Authenticate challenge header; when auth is disabled every request is
\* served without credentials.
C7_BasicAuthGate ==
    pc \notin {"idle", "received"} =>
        /\ (AUTH_ENABLED /\ Configured /\ CorrectCredentials(req)) => PassedGate
        /\ (AUTH_ENABLED /\ ~CorrectCredentials(req)) => Answered401
        /\ ~AUTH_ENABLED => PassedGate

\* C7's case: auth is enabled and a request with the right credentials got its answer
C7_Witness ==
    /\ AUTH_ENABLED /\ Configured /\ CorrectCredentials(req)
    /\ pc = "done"
    /\ res[1].status = 200

\* C8: when auth is enabled, the authentication check precedes every route: for
\* an unauthenticated request no request body is read, no upstream call is made
\* and no file is served, and the only response is the 401 challenge.
C8_AuthPrecedesRoutes ==
    (AUTH_ENABLED /\ pc # "idle" /\ ~(Configured /\ CorrectCredentials(req))) =>
        /\ bodyReads = 0 /\ body = NoBody
        /\ fetchCalls = <<>>
        /\ fileReads = 0
        /\ pc \in {"received", "done"}
        /\ pc = "received" => res = <<>>
        /\ pc = "done" => Answered401

\* C8's case: an unauthenticated chat request has been answered
C8_Witness ==
    /\ AUTH_ENABLED /\ Configured /\ ~CorrectCredentials(req)
    /\ IsChatRequest
    /\ pc = "done"

\* C9: a POST /api/chat whose personaId is not in the persona registry is
\* answered with a 4xx validation error, and the completion client is never
\* called for that request.
C9_UnknownPersonaRejected ==
    (IsChatRequest /\ body.kind = "object" /\ ~NamesPersona(body.personaId)) =>
        /\ fetchCalls = <<>>
        /\ pc \in {"bodyRead", "done"}
        /\ pc = "done" => (Len(res) = 1 /\ res[1].status \in 400..499)

\* C10: the completion client is called for a chat request only if the trimmed
\* message is non-empty and the mode is one of interview, scenario, usability (a
\* missing mode counts as interview); for every other mode string and for an
\* empty message the request is rejected with a 400 before prompt assembly and
\* no upstream call is made.  (Stated for bodies on which no coercion throws,
\* and with the letter case of the mode ignored.)
C10_CallOnlyForValidModeAndMessage ==
    (IsChatRequest /\ Coercible(body)) =>
        /\ fetchCalls # <<>> => (MessageGiven(body.message) /\ ModeRecognised(body.mode))
        /\ (pc = "done" /\ ~(MessageGiven(body.message) /\ ModeRecognised(body.mode)))
              => (Len(res) = 1 /\ res[1].status = 400 /\ fetchCalls = <<>> /\ input = <<>>)

(***************************************************************************)
(* Reference definitions of reply extraction: the text fragments of a      *)
(* response body, read off the body without the code's control flow.       *)
(***************************************************************************)
\* the non-blank strings among the text and output_text of the content items
\* at positions i, j of the body, trimmed
FragmentAt(b, i, j, f) ==
    LET item == b.output[i]
    IN  IF item.kind = "object" /\ item.isArray /\ item.content[j].kind = "object"
           /\ (IF f = 1 THEN item.content[j].text ELSE item.content[j].output_text).t = "string"
        THEN TrimSeq((IF f = 1 THEN item.content[j].text ELSE item.content[j].output_text).s)
        ELSE <<>>

\* all positions (item, content item, field) in document order
RECURSIVE FragmentsFrom(_, _, _, _)
FragmentsFrom(b, i, j, f) ==
    IF i > Len(b.output) THEN <<>>
    ELSE IF ~(b.output[i].kind = "object" /\ b.output[i].isArray) \/ j > Len(b.output[i].content)
    THEN FragmentsFrom(b, i + 1, 1, 1)
    ELSE (IF FragmentAt(b, i, j, f) # <<>> THEN << FragmentAt(b, i, j, f) >> ELSE <<>>)
         \o (IF f = 1 THEN FragmentsFrom(b, i, j, 2) ELSE FragmentsFrom(b, i, j + 1, 1))

ExpectedReply(b) ==
    IF b.kind = "object" /\ b.output_text.t = "string" /\ TrimSeq(b.output_text.s) # <<>>
    THEN TrimSeq(b.output_text.s)
    ELSE IF b.kind = "object" /\ b.isArray THEN JoinLines(FragmentsFrom(b, 1, 1, 1))
    ELSE <<>>

\* C15: for every upstream response body, reply extraction returns the trimmed
\* flat output_text when it is a non-blank string, and otherwise the trimmed text
\* fragments of all content items of all output items, in their original order,
\* joined by newlines.  (That an empty extracted text fails the chat request is
\* part of C12's formula.)
C15_ExtractsFlatOrFragments ==
    ret.state # "none" => (ret.state = "returned" /\ ret.value = ExpectedReply(arg))

(***************************************************************************)
(* Reference predicates of the responses of /api/chat.                     *)
(***************************************************************************)
\* a response {error: <message>} with an error status
IsErrorResponse(r) ==
    /\ r.status \in 400..599
    /\ r.payload.kind = "error"
    /\ r.payload.error # ""
    /\ r.payload.reply = EmptyText

\* a response 200 {reply: <non-empty text>}
IsReplyResponse(r) ==
    /\ r.status = 200
    /\ r.payload.kind = "reply"
    /\ r.payload.error = ""
    /\ Len(r.payload.reply) > 0

\* C11: when the upstream call answers with a non-2xx status or fails at the
\* network level, the chat request is answered with an error response carrying an
\* error message and the process does not crash; when the handler has returned,
\* the server is in the state of a server that has served nothing yet (same
\* configuration, no trace of the request), so every later request is served as
\* if the failure had not happened.
C11_UpstreamFailureSurfaced ==
    [][ /\ \A o \in UpstreamOutcomes :
              (UpstreamFailed(o) /\ UpstreamResponds(o)) =>
                  /\ alive'
                  /\ pc' = "done"
                  /\ Len(res') = 1
                  /\ IsErrorResponse(res'[1])
        /\ (pc = "done" /\ pc' = "idle") => (ServerIdle' /\ UNCHANGED config)
      ]_vars

\* C11's case: the upstream answered non-2xx and the request got the error
C11_Witness ==
    /\ alive
    /\ pc = "done"
    /\ Len(fetchCalls) = 1
    /\ res[1].status = 500
    /\ res[1].payload.error = "Rate limit reached."

\* C12: every response to an authenticated POST /api/chat is either status 200
\* with a body {reply} whose reply is a non-empty string, or a non-2xx status
\* with a body {error} whose error is a string; a 200 response never carries an
\* empty reply or an error field.
C12_ReplyOrError ==
    IsChatRequest =>
        \A i \in 1..Len(res) :
            res[i].status # 401 => (IsReplyResponse(res[i]) \/ IsErrorResponse(res[i]))

\* C12's case: a reply of two fragments was extracted and sent with status 200
C12_Witness ==
    /\ IsChatRequest
    /\ pc = "done"
    /\ res[1].status = 200
    /\ res[1].payload.reply = <<"a", "\n", "c">>

\* C14: if the API key designated by the persona is absent or empty, the chat
\* request fails with an error reported to the caller, no upstream call is made
\* and nothing is retried: the prompt is not assembled, the body is read once and
\* the one response is the error.
C14_MissingKeyReported ==
    (IsChatRequest /\ body.kind = "object" /\ NamesPersona(body.personaId)
       /\ KeyOf(body.personaId) \notin env) =>
        /\ fetchCalls = <<>>
        /\ input = <<>>
        /\ bodyReads = 1
        /\ pc \in {"bodyRead", "validated", "done"}
        /\ pc = "done" => (Len(res) = 1 /\ IsErrorResponse(res[1]))
        /\ (pc = "done" /\ Coercible(body) /\ MessageGiven(body.message)
              /\ ModeRecognised(body.mode))
              => res[1] = sendJson(500, ErrorPayload("Missing API key."))

\* C14's case: a valid request for the persona without key was answered
C14_Witness ==
    /\ IsChatRequest
    /\ pc = "done"
    /\ NamesPersona(body.personaId)
    /\ KeyOf(body.personaId) \notin env
    /\ res[1].payload.error = "Missing API key."

(***************************************************************************)
(* Reference definitions of the personas list.                             *)
(***************************************************************************)
PublicFields == {"id", "code", "name", "persona_type", "tagline"}

\* the entries of the personas responses written for the request
PersonaListings ==
    { res[i].payload.data : i \in { k \in 1..Len(res) : res[k].payload.kind = "personas" } }

BodyRejected == bodyReads = 1 /\ body = NoBody /\ pc = "done"

\* the body is JSON but no object, or an object whose persona id, message or
\* mode is not acceptable
InvalidBody(b) ==
    \/ b.kind \in {"null", "primitive"}
    \/ /\ Coercible(b)
       /\ \/ ~NamesPersona(b.personaId)
          \/ ~MessageGiven(b.message)
          \/ ~ModeRecognised(b.mode)

\* C18: every POST /api/chat that fails validation (unknown persona id, empty
\* message, unrecognized mode, a body over the size limit, or a malformed body,
\* including a body that is valid JSON but not an object such as null) is
\* answered with a 4xx status and a specific message, never with a 5xx.  (Stated
\* for the object bodies on which no coercion throws.)
C18_ValidationFailureIs4xx ==
    (IsChatRequest /\ pc = "done" /\ PassedGate /\ (BodyRejected \/ InvalidBody(body))) =>
        /\ Len(res) = 1
        /\ res[1].status \in 400..499
        /\ IsErrorResponse(res[1])

\* C19: an authenticated GET /api/status is answered with {ready: boolean},
\* where ready is true exactly when the completion backend key configuration is
\* present (here: a persona key is set).
C19_StatusReportsReadiness ==
    (req.method = "GET" /\ req.path = "/api/status" /\ pc = "done" /\ PassedGate) =>
        /\ res[1].status = 200
        /\ res[1].payload.kind = "status"
        /\ "ready" \in DOMAIN res[1].payload
        /\ res[1].payload.ready = (env # {})

\* C17: every chat request that has reached the upstream call eventually
\* reaches replied or errored, also when the upstream never answers (the call is
\* cancelled by a timeout and an error is returned to the client).
C17_UpstreamCallTerminates == (pc = "upstream") ~> (pc = "done")

(***************************************************************************)
(* Reference predicates of the browser clients.                            *)
(***************************************************************************)
\* the submission has ended in an error: a message other than the reply was
\* shown, or the response had an error status
EndedInError ==
    /\ cpc = "idle"
    /\ \/ shown \in {"expired", "serverError", "noResponse", "timeout", "connection",
                     "requestFailed"}
       \/ response \in 400..599

\* C16: in every browser client, after a chat submission that ends in an error
\* (error response, 401, network failure or timeout) the client's conversation
\* history is equal to what it was before that submission: the failed user turn
\* is not retained.
C16_FailedTurnNotRetained ==
    EndedInError => conversationHistory = before

\* C20: in the clients that arm an abort timer, every submission terminates: if
\* the server has not delivered the complete answer, the request is aborted by
\* the timer, the handler ends and the loading flag is cleared so that a new
\* submission is possible.
C20_SubmissionTerminates ==
    (client \in TimerClients /\ cpc # "idle") ~> (cpc = "idle" /\ ~isLoading)

(***************************************************************************)
(* Auth enabled without configured credentials.                            *)
(***************************************************************************)
\* auth is on and APP_USERNAME or APP_PASSWORD is empty
Unconfigured == AUTH_ENABLED /\ (APP_USERNAME = <<>> \/ APP_PASSWORD = <<>>)

\* C29: when auth is enabled and APP_USERNAME or APP_PASSWORD is empty, every
\* request is answered with the 401 challenge and nothing else, whatever
\* Authorization header it carries: no route is entered, no body is read, no
\* upstream call is made.
C29_UnconfiguredRejectsAll ==
    (Unconfigured /\ pc \notin {"idle", "received"})
        => /\ pc = "done"
           /\ res = <<Challenge401>>
           /\ fetchCalls = <<>> /\ bodyReads = 0 /\ fileReads = 0

\* both credentials are empty and the request carries Basic credentials with an
\* empty username and an empty password; it has been answered 401
C29_Witness ==
    /\ AUTH_ENABLED /\ APP_USERNAME = <<>> /\ APP_PASSWORD = <<>>
    /\ req.authorization = BasicHeader(<<":">>)
    /\ pc = "done"
    /\ res = <<Challenge401>>


(***************************************************************************)
(* Errors and the request handler.                                         *)
(***************************************************************************)
\* C22: every error raised while a request is handled is caught in the handler
\* and answered with a JSON error: the process stays alive, no request ends in
\* an escaped error, and a finished request has exactly one response, which for
\* a status of 400 or more carries an error message.
C22_NoErrorEscapes ==
    /\ alive
    /\ pc # "crashed"
    /\ pc = "done" => /\ Len(res) = 1
                      /\ res[1].status >= 400 => res[1].payload.kind = "error"


(***************************************************************************)
(* The life of a chat request.                                             *)
(***************************************************************************)
\* the phases of a chat request, numbered in the order of the state machine;
\* reading the body falls between authenticated and validated
PhaseOf(p) ==
    CASE p = "received" -> 1
      [] p = "authenticated" -> 2
      [] p = "readingBody" -> 2
      [] p = "bodyRead" -> 2
      [] p = "validated" -> 3
      [] p = "assembled" -> 4
      [] p = "upstream" -> 5
      [] p = "done" -> 6
      [] OTHER -> 0

Replied == pc = "done" /\ Len(res) = 1 /\ IsReplyResponse(res[1])
Errored == pc = "done" /\ Len(res) = 1 /\ IsErrorResponse(res[1])

\* the phases are entered one after the other, none twice, none backwards; a
\* request may only skip forward to its end
C21_PhasesInOrder ==
    [][ (IsChatRequest /\ pc # "done")
            => \/ PhaseOf(pc') = PhaseOf(pc)
               \/ PhaseOf(pc') = PhaseOf(pc) + 1
               \/ pc' = "done" ]_vars

\* at most one upstream call and one response; a phase is reached only with the
\* work of the earlier ones done; the end is replied or errored, not both
C21_SingleAttempt ==
    IsChatRequest =>
        /\ Len(fetchCalls) <= 1
        /\ Len(res) <= 1
        /\ PhaseOf(pc) \in 2..5 => isAuthenticated(req)
        /\ PhaseOf(pc) \in 3..5 => (bodyReads = 1 /\ Validation(
               [personaId |-> personaId, message |-> message, mode |-> mode]) = "pass")
        /\ PhaseOf(pc) \in 4..5 => input # <<>>
        /\ Len(fetchCalls) = 1 <=> (PhaseOf(pc) = 5 \/ (pc = "done" /\ input # <<>>))
        /\ pc \in {"upstream"} => res = <<>>
        /\ pc = "done" => (Replied \/ Errored) /\ ~(Replied /\ Errored)
        /\ Replied => Len(fetchCalls) = 1

\* C21: every chat request passes through received, authenticated, validated,
\* prompt-assembled and upstream-called in this order, makes at most one
\* upstream call, and ends: once its body has arrived it reaches exactly one of
\* the terminal states replied and errored, having sent exactly one response.
C21_ChatRequestLifecycle ==
    /\ C21_PhasesInOrder
    /\ []C21_SingleAttempt
    /\ (IsChatRequest /\ pc = "bodyRead") ~> (Replied \/ Errored)


(***************************************************************************)
(* normalizeHistory as a total function.                                   *)
(***************************************************************************)
\* C23: normalizeHistory never fails: for every value a client can send as
\* history it returns, without raising an error, a sequence of turns with role
\* 'user' or 'assistant' and a non-empty text content.
C23_NormalizeHistoryTotal ==
    /\ ret.state # "threw"
    /\ ret.state = "returned" =>
           \A i \in 1..Len(ret.value) :
               /\ ret.value[i].role \in {"user", "assistant"}
               /\ ret.value[i].content.len >= 1


(***************************************************************************)
(* The shape of a truncated dossier.                                       *)
(***************************************************************************)
\* the first k and the last k characters of s
FirstChars(s, k) == SubSeq(s, 1, k)
LastChars(s, k) == SubSeq(s, Len(s) - k + 1, Len(s))

\* the characters of s that are neither among its first h nor its last t
ElidedMiddle(s, h, t) == { s[i] : i \in (h + 1)..(Len(s) - t) }

\* C24: for every budget B and every dossier longer than B, truncateText returns
\* the first floor(0.8*B) characters of the dossier, the elision marker and the
\* last floor(0.2*B) characters of the dossier, and nothing else: no character of
\* the elided middle is in the result.
C24_HeadMarkerTail ==
    (ret.state = "returned" /\ Len(arg) > MAX_DOSSIER_CHARS) =>
        LET h == FloorTimes08(MAX_DOSSIER_CHARS)
            t == FloorTimes02(MAX_DOSSIER_CHARS)
        IN  /\ ret.value = FirstChars(arg, h) \o ELISION_MARKER \o LastChars(arg, t)
            /\ \A i \in 1..Len(ret.value) : ret.value[i] \notin ElidedMiddle(arg, h, t)


(***************************************************************************)
(* The reply a streaming client records.                                   *)
(***************************************************************************)
\* the texts of the token frames before the first marker, in the order sent
RECURSIVE TokensBeforeMarker(_)
TokensBeforeMarker(fs) ==
    IF fs = <<>> \/ Head(fs).kind \in {"done", "error"} THEN ""
    ELSE Head(fs).text \o TokensBeforeMarker(Tail(fs))

\* the first marker of the stream is an error frame
RECURSIVE EndsInErrorFrame(_)
EndsInErrorFrame(fs) ==
    IF fs = <<>> \/ Head(fs).kind = "done" THEN FALSE
    ELSE Head(fs).kind = "error" \/ EndsInErrorFrame(Tail(fs))

\* the stream was read up to its end or to its error marker
StreamRead == cpc = "idle" /\ shown \in {"assistant", "noResponse", "streamError"}

Alternating(h) ==
    /\ Len(h) % 2 = 0
    /\ \A i \in 1..Len(h) : h[i].role = (IF i % 2 = 1 THEN "user" ELSE "assistant")

\* C26: in the chat client (chat.js), under every interleaving of submit,
\* clear-chat and response events, whenever no request is in flight the
\* conversation history is empty or an alternating sequence of user and assistant
\* turns from a user turn to an assistant turn; a reply to a request started
\* before clear-chat is not left in the cleared history.
C26_HistoryAlternatesAtRest ==
    (client = "chat.js" /\ cpc = "idle") => Alternating(conversationHistory)


(***************************************************************************)
(* The new message in the prompt of a single-page submission.              *)
(***************************************************************************)
\* the entries of an input list that are user turns with the text given
UserEntriesWith(inp, text) ==
    { i \in 1..Len(inp) : inp[i].role = "user" /\ inp[i].content = Text(text, Len(text)) }

\* C27: in the single-page client the history of the /api/chat body holds only
\* the turns that precede the message being sent, so the new user message (a
\* text no earlier turn has) occurs exactly once in the prompt the server
\* assembles from that body, as its final entry.
C27_MessageOnceInPrompt ==
    ret.state = "returned" =>
        UserEntriesWith(ret.value, arg.text) = { Len(ret.value) }


(***************************************************************************)
(* Replies and the sessions of the single-page client.                     *)
(***************************************************************************)
\* C28: in the single-page client a reply that arrives after the user has left
\* the session with the back button, or has started a session with another
\* persona, is not appended to the history of the new session: whenever an
\* assistant turn is appended to the history of an open session, the persona of
\* that session is the one the request was sent to.
C28_ReplyStaysInItsSession ==
    [][ ( /\ client = "app.js"
          /\ cpc = "reading"
          /\ currentPersona # NoPersona
          /\ Len(conversationHistory') = Len(conversationHistory) + 1 )
            => currentPersona = sentTo ]_vars

=============================================================================
